---- MODULE Spec2Model ----
(***************************************************************************)
(* Thermostat controller (thermostack): the furnace state machine, the     *)
(* time-of-day schedule, the furnace-update decision and the temperature   *)
(* log, modelled from the Node.js source.  Every handler / callback of the *)
(* single-threaded event loop is one atomic action; asynchronous I/O       *)
(* (sensor reads, file writes, GPIO pin writes) is a bag of outstanding    *)
(* operations whose completions are separate actions taken in any order.   *)
(*                                                                         *)
(* Two specifications explore the program.  Spec follows the furnace and   *)
(* the schedule: the furnace-update cadence and the POST handlers, from    *)
(* any schedule file; the sensor read of the logging cadence stays         *)
(* outstanding in it.  LogSpec follows the logging cadence, from any log   *)
(* file and a start that finds no schedule.  The two cadences share no     *)
(* variable.  GET /state and GET /log change no state and are left out.    *)
(*                                                                         *)
(* Temperatures read from the sensor are kept in milli-degrees (the code   *)
(* divides the integer by 1000 and compares the quotient with the          *)
(* schedule's degrees; the model compares the integer with degrees*1000).  *)
(* The time of the log is counted in hours.                                *)
(***************************************************************************)
EXTENDS Integers, Sequences, FiniteSets, Bags, TLC

VARIABLES
    pc,                  \* position of the process: main's statements, then the event loop
    furnaceState,        \* globals.furnaceState
    mainPowerPin,        \* level of GPIO 17
    heatCoolSelectorPin, \* level of GPIO 22
    pinWrites,           \* bag of Gpio.write calls whose completion is outstanding
    tempSchedule,        \* globals.tempSchedule (<<>> also stands for undefined before the load)
    scheduleFile,        \* content of ./temperatureSchedule.json
    scheduleWrites,      \* bag of fs.writeFile calls of POST /schedule still outstanding
    sensorReads,         \* bag of getTemperature calls outstanding, with their callbacks' closures
    tempLog,             \* globals.tempLog (the empty map also stands for undefined before the load)
    logFile,             \* content of ./temperatureLogFile.json
    logWrites,           \* bag of fs.writeFile calls of logTemperature still outstanding
    clock,               \* the last value Date.now() returned, in hours
    events,              \* number of timer firings and HTTP requests handled so far
    lastStep             \* observation: the handler that ran last, its input and its response

vars == <<pc, furnaceState, mainPowerPin, heatCoolSelectorPin, pinWrites,
          tempSchedule, scheduleFile, scheduleWrites, sensorReads,
          tempLog, logFile, logWrites, clock, events, lastStep>>

\* the state of the logging cadence
logVars == <<tempLog, logFile, logWrites, clock>>

----------------------------------------------------------------------------
(* Bounds of the model *)

MaxEvents == 2           \* timer firings and HTTP requests handled in one run
MaxBodyLen == 2          \* entries of a submitted / stored schedule object

----------------------------------------------------------------------------
(* Text: a string is a sequence of one-character strings *)

DigitChars == <<"0", "1", "2", "3", "4", "5", "6", "7", "8", "9">>

IsDigit(c) == \E i \in 1..Len(DigitChars) : DigitChars[i] = c

DigitValue(c) == (CHOOSE i \in 1..Len(DigitChars) : DigitChars[i] = c) - 1

\* numeric value of a string of decimal digits (parseFloat / implicit ToNumber / division)
RECURSIVE DigitsToNumber(_)
DigitsToNumber(s) ==
    IF s = <<>> THEN 0
    ELSE 10 * DigitsToNumber(SubSeq(s, 1, Len(s) - 1)) + DigitValue(s[Len(s)])

AllDigits(s) == \A i \in 1..Len(s) : IsDigit(s[i])

----------------------------------------------------------------------------
(* isNumber *)

\* a JSON / JS value as far as typeof and isNaN see it
Num(n) == [type |-> "number", isNaN |-> FALSE, n |-> n]
Str(n) == [type |-> "string", isNaN |-> FALSE, n |-> n]

isNumber(value) == value.type = "number" /\ ~value.isNaN

----------------------------------------------------------------------------
(* The furnace *)

furnaceActions == {"heat", "cool", "off"}

PinWrite(pin, value) == SetToBag({[pin |-> pin, value |-> value]})

\* variant: the fields of the action are switched on, the others are left as they are
FurnaceStateOf_FieldUpdate(action) ==
    CASE action = "heat" -> [furnaceState EXCEPT !.fan = TRUE, !.heat = TRUE]
      [] action = "cool" -> [furnaceState EXCEPT !.fan = TRUE, !.cool = TRUE]
      [] action = "off" -> [fan |-> FALSE, heat |-> FALSE, cool |-> FALSE]
      [] OTHER -> furnaceState

\* the state performFurnaceAction records for an action
FurnaceStateOf(action) ==
    CASE action = "heat" -> [fan |-> TRUE, heat |-> TRUE, cool |-> FALSE]
      [] action = "cool" -> [fan |-> TRUE, heat |-> FALSE, cool |-> TRUE]
      [] action = "off" -> [fan |-> FALSE, heat |-> FALSE, cool |-> FALSE]
      [] OTHER -> furnaceState      \* the switch has no default: nothing is assigned

\* the pin writes performFurnaceAction issues for an action
PinWritesOf(action) ==
    CASE action = "heat" -> PinWrite("mainPower", 0) (+) PinWrite("selector", 1)
      [] action = "cool" -> PinWrite("mainPower", 0) (+) PinWrite("selector", 0)
      [] action = "off" -> PinWrite("mainPower", 1)
      [] OTHER -> EmptyBag

performFurnaceAction(action) ==
    /\ furnaceState' = FurnaceStateOf(action)
    /\ pinWrites' = pinWrites (+) PinWritesOf(action)

----------------------------------------------------------------------------
(* The temperature sensor *)

\* The w1_slave text as far as the two regular expressions see it: whether
\* "crc=.. YES" occurs, whether "t=" followed by digits occurs, and the digits.
SensorData(crcYes, hasT, digits) == [crcYes |-> crcYes, hasT |-> hasT, digits |-> digits]

ReadError(msg) == [type |-> "object", isNaN |-> FALSE, error |-> msg]

\* variant: without the branch that takes a reading of "0" for an error
parseTempSensorData_ZeroIsReading(data) ==
    IF ~data.crcYes THEN ReadError("CRC failure")
    ELSE IF ~data.hasT THEN ReadError("couldn't find temperature in data")
    ELSE Num(DigitsToNumber(data.digits))

parseTempSensorData(data) ==
    IF ~data.crcYes THEN ReadError("CRC failure")
    ELSE IF ~data.hasT THEN ReadError("couldn't find temperature in data")
    ELSE IF data.digits = <<"0">> THEN ReadError("read 0 degree temperature")
    ELSE Num(DigitsToNumber(data.digits))     \* milli-degrees

\* what fs.readFile hands to getTemperature's callback: an error, or the text
getTemperature(read) ==
    IF read.err THEN ReadError("EIO") ELSE parseTempSensorData(read.data)

SensorTexts ==
    { SensorData(FALSE, TRUE, <<"2", "0", "0", "0", "0">>),
      SensorData(TRUE, FALSE, <<>>),
      SensorData(TRUE, TRUE, <<"0">>),
      SensorData(TRUE, TRUE, <<"1", "8", "5", "0", "0">>),
      SensorData(TRUE, TRUE, <<"1", "9", "0", "0", "0">>),
      SensorData(TRUE, TRUE, <<"2", "0", "0", "0", "0">>),
      SensorData(TRUE, TRUE, <<"2", "1", "0", "0", "0">>),
      SensorData(TRUE, TRUE, <<"2", "1", "5", "0", "0">>) }

SensorFileReads ==
    { [err |-> TRUE, data |-> SensorData(FALSE, FALSE, <<>>)] }
        \cup { [err |-> FALSE, data |-> d] : d \in SensorTexts }

----------------------------------------------------------------------------
(* Schedule entries *)

Thrown(msg) == [ok |-> FALSE, error |-> msg]

\* timeStr.match(/^(\d{1,2}):(\d{2})$/): the two groups, or null
MatchTimeStr(timeStr) ==
    LET n == Len(timeStr) IN
    IF /\ n \in {4, 5}
       /\ timeStr[n - 2] = ":"
       /\ AllDigits(SubSeq(timeStr, 1, n - 3))
       /\ AllDigits(SubSeq(timeStr, n - 1, n))
    THEN [null |-> FALSE, g1 |-> SubSeq(timeStr, 1, n - 3), g2 |-> SubSeq(timeStr, n - 1, n)]
    ELSE [null |-> TRUE, g1 |-> <<>>, g2 |-> <<>>]

\* variant: the hour test lets 24 through
TempTime_Hour24(timeStr, tempArray) ==
    LET extractedTimes == MatchTimeStr(timeStr) IN
    IF extractedTimes.null THEN Thrown("Improperly formed time string")
    ELSE IF DigitsToNumber(extractedTimes.g1) < 0 \/ DigitsToNumber(extractedTimes.g1) > 24
        THEN Thrown("invalid hour")
    ELSE IF DigitsToNumber(extractedTimes.g2) < 0 \/ DigitsToNumber(extractedTimes.g2) > 59
        THEN Thrown("invalid minutes")
    ELSE IF ~tempArray.isArray THEN Thrown("temperature array must be an array")
    ELSE IF Len(tempArray.items) # 2 THEN Thrown("temperature array must have length 2")
    ELSE IF (~isNumber(tempArray.items[1])) \/ (~isNumber(tempArray.items[2]))
        THEN Thrown("both values must be numbers")
    ELSE IF tempArray.items[1].n >= tempArray.items[2].n
        THEN Thrown("min temperature must be less than max")
    ELSE [ok |-> TRUE,
          value |-> [hour |-> DigitsToNumber(extractedTimes.g1),
                     minutes |-> DigitsToNumber(extractedTimes.g2),
                     minTemp |-> tempArray.items[1].n,
                     maxTemp |-> tempArray.items[2].n]]

\* variant: the range test lets minTemp = maxTemp through
TempTime_MinMayEqualMax(timeStr, tempArray) ==
    LET extractedTimes == MatchTimeStr(timeStr) IN
    IF extractedTimes.null THEN Thrown("Improperly formed time string")
    ELSE IF DigitsToNumber(extractedTimes.g1) < 0 \/ DigitsToNumber(extractedTimes.g1) > 23
        THEN Thrown("invalid hour")
    ELSE IF DigitsToNumber(extractedTimes.g2) < 0 \/ DigitsToNumber(extractedTimes.g2) > 59
        THEN Thrown("invalid minutes")
    ELSE IF ~tempArray.isArray THEN Thrown("temperature array must be an array")
    ELSE IF Len(tempArray.items) # 2 THEN Thrown("temperature array must have length 2")
    ELSE IF (~isNumber(tempArray.items[1])) \/ (~isNumber(tempArray.items[2]))
        THEN Thrown("both values must be numbers")
    ELSE IF tempArray.items[1].n > tempArray.items[2].n
        THEN Thrown("min temperature must be less than max")
    ELSE [ok |-> TRUE,
          value |-> [hour |-> DigitsToNumber(extractedTimes.g1),
                     minutes |-> DigitsToNumber(extractedTimes.g2),
                     minTemp |-> tempArray.items[1].n,
                     maxTemp |-> tempArray.items[2].n]]

\* new TempTime(timeStr, tempArray): the object built, or the exception thrown
TempTime(timeStr, tempArray) ==
    LET extractedTimes == MatchTimeStr(timeStr) IN
    IF extractedTimes.null THEN Thrown("Improperly formed time string")
    ELSE IF DigitsToNumber(extractedTimes.g1) < 0 \/ DigitsToNumber(extractedTimes.g1) > 23
        THEN Thrown("invalid hour")
    ELSE IF DigitsToNumber(extractedTimes.g2) < 0 \/ DigitsToNumber(extractedTimes.g2) > 59
        THEN Thrown("invalid minutes")
    ELSE IF ~tempArray.isArray THEN Thrown("temperature array must be an array")
    ELSE IF Len(tempArray.items) # 2 THEN Thrown("temperature array must have length 2")
    ELSE IF (~isNumber(tempArray.items[1])) \/ (~isNumber(tempArray.items[2]))
        THEN Thrown("both values must be numbers")
    ELSE IF tempArray.items[1].n >= tempArray.items[2].n
        THEN Thrown("min temperature must be less than max")
    ELSE [ok |-> TRUE,
          value |-> [hour |-> DigitsToNumber(extractedTimes.g1),
                     minutes |-> DigitsToNumber(extractedTimes.g2),
                     minTemp |-> tempArray.items[1].n,
                     maxTemp |-> tempArray.items[2].n]]

\* position of a number below 100 among the decimal strings, in string order
StringOrder(n) == IF n < 10 THEN 100 * n ELSE 100 * (n \div 10) + 1 + (n % 10)

\* variant: hours and minutes are compared as the strings the regular expression captured
compareTempTimes_AsStrings(tempTime1, tempTime2) ==
    IF StringOrder(tempTime1.hour) > StringOrder(tempTime2.hour) THEN 1
    ELSE IF StringOrder(tempTime1.hour) < StringOrder(tempTime2.hour) THEN -1
    ELSE IF StringOrder(tempTime1.minutes) > StringOrder(tempTime2.minutes) THEN 1
    ELSE IF StringOrder(tempTime1.minutes) < StringOrder(tempTime2.minutes) THEN -1
    ELSE 0

compareTempTimes(tempTime1, tempTime2) ==
    IF tempTime1.hour > tempTime2.hour THEN 1
    ELSE IF tempTime1.hour < tempTime2.hour THEN -1
    ELSE IF tempTime1.minutes > tempTime2.minutes THEN 1
    ELSE IF tempTime1.minutes < tempTime2.minutes THEN -1
    ELSE 0

\* array.sort(compareTempTimes): a stable sort, here by insertion
RECURSIVE InsertSorted(_, _)
InsertSorted(sorted, x) ==
    IF sorted = <<>> THEN <<x>>
    ELSE IF compareTempTimes(sorted[Len(sorted)], x) > 0
        THEN Append(InsertSorted(SubSeq(sorted, 1, Len(sorted) - 1), x), sorted[Len(sorted)])
    ELSE Append(sorted, x)

RECURSIVE ArraySort(_)
ArraySort(array) ==
    IF array = <<>> THEN <<>>
    ELSE InsertSorted(ArraySort(SubSeq(array, 1, Len(array) - 1)), array[Len(array)])

\* the loop of ObjToSortedTempTimeArray: the first exception ends it
RECURSIVE BuildTempTimes(_, _)
BuildTempTimes(entries, array) ==
    IF entries = <<>> THEN [ok |-> TRUE, array |-> array]
    ELSE LET t == TempTime(entries[1].timeStr, entries[1].tempArray) IN
         IF ~t.ok THEN t
         ELSE BuildTempTimes(Tail(entries), Append(array, t.value))

\* obj is the sequence Object.entries(obj) yields
ObjToSortedTempTimeArray(obj) ==
    LET built == BuildTempTimes(obj, <<>>) IN
    IF ~built.ok THEN built
    ELSE [ok |-> TRUE, array |-> ArraySort(built.array)]

----------------------------------------------------------------------------
(* Inputs: schedule objects, wall-clock times, files *)

Key830 == <<"8", ":", "3", "0">>
Key0830 == <<"0", "8", ":", "3", "0">>
Key805 == <<"8", ":", "0", "5">>
Key1000 == <<"1", "0", ":", "0", "0">>
Key2400 == <<"2", "4", ":", "0", "0">>
Key860 == <<"8", ":", "6", "0">>
KeyNoColon == <<"8", "3", "0">>

Array(items) == [isArray |-> TRUE, items |-> items]
NotAnArray == [isArray |-> FALSE, items |-> <<>>]

Entry(timeStr, tempArray) == [timeStr |-> timeStr, tempArray |-> tempArray]

WellFormedEntries ==
    { Entry(Key830, Array(<<Num(19), Num(21)>>)),
      Entry(Key0830, Array(<<Num(15), Num(18)>>)),
      Entry(Key805, Array(<<Num(15), Num(18)>>)),
      Entry(Key1000, Array(<<Num(19), Num(21)>>)) }

MalformedEntries ==
    { Entry(KeyNoColon, Array(<<Num(19), Num(21)>>)),
      Entry(Key2400, Array(<<Num(19), Num(21)>>)),
      Entry(Key860, Array(<<Num(19), Num(21)>>)),
      Entry(Key1000, NotAnArray),
      Entry(Key1000, Array(<<Num(19)>>)),
      Entry(Key1000, Array(<<Str(19), Num(21)>>)),
      Entry(Key1000, Array(<<Num(21), Num(19)>>)),
      Entry(Key1000, Array(<<Num(20), Num(20)>>)) }

Entries == WellFormedEntries \cup MalformedEntries

\* the objects a JSON text can denote: a key occurs once
IsObject(obj) ==
    \A i, j \in 1..Len(obj) : obj[i].timeStr = obj[j].timeStr => i = j

Objects ==
    { obj \in UNION { [1..n -> Entries] : n \in 0..MaxBodyLen } : IsObject(obj) }

\* wall-clock times (getHours(), getMinutes()) at which a tick may run
Times ==
    { [hour |-> 7, minute |-> 0], [hour |-> 8, minute |-> 30],
      [hour |-> 8, minute |-> 31], [hour |-> 23, minute |-> 59] }

\* a file: absent, or a text that is JSON for obj or is not JSON at all
NoFile == [exists |-> FALSE, json |-> FALSE, obj |-> <<>>]
CorruptFile == [exists |-> TRUE, json |-> FALSE, obj |-> <<>>]
JsonFile(obj) == [exists |-> TRUE, json |-> TRUE, obj |-> obj]

readJsonFileIfExists(file) ==
    IF file.exists
    THEN IF file.json THEN file.obj ELSE <<>>
    ELSE <<>>

----------------------------------------------------------------------------
(* The furnace update *)

\* variant: an entry at the current minute counts as before the current time
RECURSIVE ScanSchedule_NotAfter(_, _, _, _)
ScanSchedule_NotAfter(schedule, i, currentTime, correctTemp) ==
    IF i > Len(schedule) THEN correctTemp
    ELSE LET tempTime == schedule[i]
             tempTimeIsBeforeCurrentTime ==
                 \/ tempTime.hour < currentTime.hour
                 \/ (tempTime.hour = currentTime.hour /\ tempTime.minutes <= currentTime.minute)
         IN ScanSchedule_NotAfter(schedule, i + 1, currentTime,
                                  IF tempTimeIsBeforeCurrentTime THEN tempTime ELSE correctTemp)

\* the forEach of updateFurnace, from entry i on
RECURSIVE ScanSchedule(_, _, _, _)
ScanSchedule(schedule, i, currentTime, correctTemp) ==
    IF i > Len(schedule) THEN correctTemp
    ELSE LET tempTime == schedule[i]
             tempTimeIsBeforeCurrentTime ==
                 \/ tempTime.hour < currentTime.hour
                 \/ (tempTime.hour = currentTime.hour /\ tempTime.minutes < currentTime.minute)
         IN ScanSchedule(schedule, i + 1, currentTime,
                         IF tempTimeIsBeforeCurrentTime THEN tempTime ELSE correctTemp)

\* the entry updateFurnace settles on for a non-empty schedule
CorrectTemp(schedule, currentTime) ==
    ScanSchedule(schedule, 1, currentTime, schedule[Len(schedule)])

\* variant: the bounds of the range count as outside it
FurnaceDecision_ClosedBounds(temperature, correctTemp) ==
    IF temperature.n <= correctTemp.minTemp * 1000 THEN "heat"
    ELSE IF temperature.n >= correctTemp.maxTemp * 1000 THEN "cool"
    ELSE "off"

\* the branch the callback of updateFurnace takes for a numeric temperature
FurnaceDecision(temperature, correctTemp) ==
    IF temperature.n < correctTemp.minTemp * 1000 THEN "heat"
    ELSE IF temperature.n > correctTemp.maxTemp * 1000 THEN "cool"
    ELSE "off"

FurnaceRead(correctTemp) == [kind |-> "furnace", correctTemp |-> correctTemp]

\* variant: the test for an empty schedule never succeeds (as "=== []" does not), and
\* the read is issued with the undefined last entry
updateFurnace_NoEmptyTest(schedule, currentTime) ==
    IF Len(schedule) = 0
    THEN sensorReads' = sensorReads (+) SetToBag({FurnaceRead(
             [hour |-> 0, minutes |-> 0, minTemp |-> 0, maxTemp |-> 0])})
    ELSE sensorReads' = sensorReads (+) SetToBag({FurnaceRead(CorrectTemp(schedule, currentTime))})

\* updateFurnace(): what it adds to the outstanding sensor reads
updateFurnace(schedule, currentTime) ==
    IF Len(schedule) = 0
    THEN sensorReads' = sensorReads
    ELSE sensorReads' = sensorReads (+) SetToBag({FurnaceRead(CorrectTemp(schedule, currentTime))})

\* what a run of updateFurnace leaves to observe
TickInfo(schedule, currentTime) ==
    [skipped |-> (Len(schedule) = 0), currentTime |-> currentTime]

----------------------------------------------------------------------------
(* The temperature log *)

\* Time is counted in hours: Date.now() is a number of hours, and so is
\* maxTempLogAgeMs (1000 * 60 * 60 * 24 * 7 ms = 168 h).
maxTempLogAgeMs == 168

\* String(n): the key under which tempLog[n] is stored
RECURSIVE NumberToDigits(_)
NumberToDigits(n) ==
    IF n < 10 THEN <<DigitChars[n + 1]>>
    ELSE Append(NumberToDigits(n \div 10), DigitChars[(n % 10) + 1])

NumberToString(n) == IF n < 0 THEN <<"-">> \o NumberToDigits(0 - n) ELSE NumberToDigits(n)

\* ToNumber(key): the number a string of digits denotes, NaN for any other text
StringToNumber(key) ==
    IF AllDigits(key) THEN Num(DigitsToNumber(key))
    ELSE [type |-> "number", isNaN |-> TRUE, n |-> 0]

\* the code unit of a character, as far as the order of strings needs it
CharCode(c) == IF IsDigit(c) THEN 48 + DigitValue(c) ELSE IF c = "-" THEN 45 ELSE 97

\* a < b for two strings
RECURSIVE StringLess(_, _)
StringLess(a, b) ==
    IF b = <<>> THEN FALSE
    ELSE IF a = <<>> THEN TRUE
    ELSE IF CharCode(a[1]) # CharCode(b[1]) THEN CharCode(a[1]) < CharCode(b[1])
    ELSE StringLess(Tail(a), Tail(b))

\* variant: the key is compared with the text of the oldest allowed time, as strings
IsOlder_AsStrings(time, oldestAllowedTime) ==
    StringLess(time, NumberToString(oldestAllowedTime))

\* time < oldestAllowedTime for a key (a string) and a number: the key is converted
IsOlder(time, oldestAllowedTime) ==
    LET t == StringToNumber(time) IN (~t.isNaN) /\ t.n < oldestAllowedTime

\* globals.tempLog[currentTime] = temperature
LogAppend(log, currentTime, temperature) ==
    [time \in DOMAIN log \cup {NumberToString(currentTime)} |->
        IF time = NumberToString(currentTime) THEN temperature ELSE log[time]]

\* the loop over Object.keys(globals.tempLog) that deletes the old temperatures
RemoveOldTemperatures(log, oldestAllowedTime) ==
    [time \in { k \in DOMAIN log : ~IsOlder(k, oldestAllowedTime) } |-> log[time]]

\* the values Date.now() takes
LogTimes == {832, 999, 1001}

LogRead == [kind |-> "log"]

\* what the sensor file gives to a read of the logging cadence: an I/O error, a zero
\* reading, a temperature
LogSensorFileReads ==
    { [err |-> TRUE, data |-> SensorData(FALSE, FALSE, <<>>)],
      [err |-> FALSE, data |-> SensorData(TRUE, TRUE, <<"0">>)],
      [err |-> FALSE, data |-> SensorData(TRUE, TRUE, <<"2", "0", "0", "0", "0">>)] }

\* logTemperature(): what it adds to the outstanding sensor reads
logTemperature == sensorReads' = sensorReads (+) SetToBag({LogRead})

----------------------------------------------------------------------------
(* Initial state: the module's top level has run, main() has not *)

\* the schedule file a start may find: none, one that is not JSON, one written by an
\* earlier run, one edited by hand into something the validation refuses
InitialScheduleFiles ==
    { NoFile, CorruptFile,
      JsonFile(<<Entry(Key1000, Array(<<Num(19), Num(21)>>)),
                 Entry(Key830, Array(<<Num(15), Num(18)>>))>>),
      JsonFile(<<Entry(Key830, Array(<<Num(19), Num(21)>>)),
                 Entry(Key2400, Array(<<Num(15), Num(18)>>))>>) }

Init ==
    /\ pc = "main"
    /\ furnaceState = [fan |-> FALSE, heat |-> FALSE, cool |-> FALSE]
    /\ mainPowerPin = 0             \* new onoff.Gpio(17, 'out'): an output, driven low
    /\ heatCoolSelectorPin = 0      \* new onoff.Gpio(22, 'out')
    /\ pinWrites = EmptyBag
    /\ tempSchedule = <<>>
    /\ scheduleFile \in InitialScheduleFiles
    /\ scheduleWrites = EmptyBag
    /\ sensorReads = EmptyBag
    /\ tempLog = <<>>
    /\ logFile = NoFile
    /\ logWrites = EmptyBag
    /\ clock = 0
    /\ events = 0
    /\ lastStep = [op |-> "load"]

\* the log file a start may find: none, one that is not JSON, one written by an earlier run
InitialLogFiles ==
    { NoFile, CorruptFile,
      JsonFile([time \in {<<"9", "0">>, <<"8", "3", "0">>} |-> Num(20000)]) }

\* a start that finds no schedule to load, and any log file
LogInit ==
    /\ pc = "main"
    /\ furnaceState = [fan |-> FALSE, heat |-> FALSE, cool |-> FALSE]
    /\ mainPowerPin = 0
    /\ heatCoolSelectorPin = 0
    /\ pinWrites = EmptyBag
    /\ tempSchedule = <<>>
    /\ scheduleFile \in {NoFile, CorruptFile}
    /\ scheduleWrites = EmptyBag
    /\ sensorReads = EmptyBag
    /\ tempLog = <<>>
    /\ logFile \in InitialLogFiles
    /\ logWrites = EmptyBag
    /\ clock = 0
    /\ events = 0
    /\ lastStep = [op |-> "load"]

----------------------------------------------------------------------------
(* main() *)

\* variant: main() without its first statement
MainOff_Omitted ==
    /\ pc = "main"
    /\ pc' = "startTempLogging"
    /\ lastStep' = [op |-> "mainOff"]
    /\ UNCHANGED <<events, furnaceState, mainPowerPin, heatCoolSelectorPin, pinWrites,
                   tempSchedule, scheduleFile, scheduleWrites, sensorReads>>
    /\ UNCHANGED logVars

\* performFurnaceAction(furnaceActions.off), main's first statement
MainOff ==
    /\ pc = "main"
    /\ performFurnaceAction("off")
    /\ pc' = "startTempLogging"
    /\ lastStep' = [op |-> "mainOff"]
    /\ UNCHANGED <<events, mainPowerPin, heatCoolSelectorPin, tempSchedule, scheduleFile,
                   scheduleWrites, sensorReads>>
    /\ UNCHANGED logVars

\* variant: JSON.parse outside any try, its exception leaving main()
StartTempLogging_NoCatch ==
    /\ pc = "startTempLogging"
    /\ IF logFile.exists /\ ~logFile.json
       THEN /\ pc' = "dead"
            /\ UNCHANGED <<tempLog, sensorReads>>
       ELSE /\ tempLog' = readJsonFileIfExists(logFile)
            /\ logTemperature
            /\ pc' = "startFurnaceUpdates"
    /\ lastStep' = [op |-> "startTempLogging"]
    /\ UNCHANGED <<events, furnaceState, mainPowerPin, heatCoolSelectorPin, pinWrites,
                   tempSchedule, scheduleFile, scheduleWrites, logFile, logWrites, clock>>

\* startTempLogging(globals): load the log, run logTemperature once, set the interval
StartTempLogging ==
    /\ pc = "startTempLogging"
    /\ tempLog' = readJsonFileIfExists(logFile)
    /\ logTemperature
    /\ pc' = "startFurnaceUpdates"
    /\ lastStep' = [op |-> "startTempLogging"]
    /\ UNCHANGED <<events, furnaceState, mainPowerPin, heatCoolSelectorPin, pinWrites,
                   tempSchedule, scheduleFile, scheduleWrites, logFile, logWrites, clock>>

\* startFurnaceUpdates(globals): load the schedule, run updateFurnace once, set the interval
StartFurnaceUpdates ==
    /\ pc = "startFurnaceUpdates"
    /\ LET loaded == ObjToSortedTempTimeArray(readJsonFileIfExists(scheduleFile)) IN
       IF ~loaded.ok
       THEN \* the exception leaves main(): the process ends
            /\ pc' = "dead"
            /\ lastStep' = [op |-> "startFurnaceUpdates", threw |-> TRUE]
            /\ UNCHANGED <<tempSchedule, sensorReads>>
       ELSE \E currentTime \in Times :
            /\ tempSchedule' = loaded.array
            /\ updateFurnace(loaded.array, currentTime)
            /\ pc' = "listen"
            /\ lastStep' = [op |-> "startFurnaceUpdates", threw |-> FALSE,
                            tick |-> TickInfo(loaded.array, currentTime)]
    /\ UNCHANGED <<events, furnaceState, mainPowerPin, heatCoolSelectorPin, pinWrites,
                   scheduleFile, scheduleWrites>>
    /\ UNCHANGED logVars

\* app.listen(...): main returns and the event loop takes over
Listen ==
    /\ pc = "listen"
    /\ pc' = "serving"
    /\ lastStep' = [op |-> "listen"]
    /\ UNCHANGED <<events, furnaceState, mainPowerPin, heatCoolSelectorPin, pinWrites,
                   tempSchedule, scheduleFile, scheduleWrites, sensorReads>>
    /\ UNCHANGED logVars

----------------------------------------------------------------------------
(* The furnace-update cadence *)

\* setInterval(updateFurnace, furnaceUpdatePeriodMs) fires
UpdateFurnaceTick ==
    /\ pc = "serving"
    /\ events < MaxEvents
    /\ events' = events + 1
    /\ \E currentTime \in Times :
        /\ updateFurnace(tempSchedule, currentTime)
        /\ lastStep' = [op |-> "updateFurnace", tick |-> TickInfo(tempSchedule, currentTime)]
    /\ UNCHANGED <<pc, furnaceState, mainPowerPin, heatCoolSelectorPin, pinWrites,
                   tempSchedule, scheduleFile, scheduleWrites>>
    /\ UNCHANGED logVars

\* the callback updateFurnace gave to getTemperature runs
UpdateFurnaceCallback ==
    /\ pc = "serving"
    /\ \E r \in BagToSet(sensorReads), read \in SensorFileReads :
        LET temperature == getTemperature(read) IN
        /\ r.kind = "furnace"
        /\ sensorReads' = sensorReads (-) SetToBag({r})
        /\ IF isNumber(temperature)
           THEN LET action == FurnaceDecision(temperature, r.correctTemp) IN
                /\ performFurnaceAction(action)
                /\ lastStep' = [op |-> "updateFurnaceCallback", read |-> read,
                                minTemp |-> r.correctTemp.minTemp,
                                maxTemp |-> r.correctTemp.maxTemp,
                                performed |-> action]
           ELSE /\ UNCHANGED <<furnaceState, pinWrites>>
                /\ lastStep' = [op |-> "updateFurnaceCallback", read |-> read,
                                minTemp |-> r.correctTemp.minTemp,
                                maxTemp |-> r.correctTemp.maxTemp,
                                performed |-> "none"]
    /\ UNCHANGED <<events, pc, mainPowerPin, heatCoolSelectorPin, tempSchedule, scheduleFile,
                   scheduleWrites>>
    /\ UNCHANGED logVars

----------------------------------------------------------------------------
(* The logging cadence *)

\* setInterval(logTemperature, tempLoggingPeriodMs) fires
LogTemperatureTick ==
    /\ pc = "serving"
    /\ events < MaxEvents
    /\ events' = events + 1
    /\ logTemperature
    /\ lastStep' = [op |-> "logTemperature"]
    /\ UNCHANGED <<pc, furnaceState, mainPowerPin, heatCoolSelectorPin, pinWrites,
                   tempSchedule, scheduleFile, scheduleWrites>>
    /\ UNCHANGED logVars

\* the callback logTemperature gave to getTemperature runs
LogTemperatureCallback ==
    /\ pc = "serving"
    /\ LogRead \in BagToSet(sensorReads)
    /\ \E read \in LogSensorFileReads, currentTime \in { t \in LogTimes : t >= clock } :
        LET temperature == getTemperature(read)
            oldestAllowedTime == currentTime - maxTempLogAgeMs
            log == RemoveOldTemperatures(LogAppend(tempLog, currentTime, temperature),
                                         oldestAllowedTime)
        IN /\ sensorReads' = sensorReads (-) SetToBag({LogRead})
           /\ clock' = currentTime
           /\ tempLog' = log
           /\ logWrites' = logWrites (+) SetToBag({JsonFile(log)})
           /\ lastStep' = [op |-> "logTemperatureCallback"]
    /\ UNCHANGED <<events, pc, furnaceState, mainPowerPin, heatCoolSelectorPin, pinWrites,
                   tempSchedule, scheduleFile, scheduleWrites, logFile>>

\* the fs.writeFile of logTemperature completes: the file is written, or the error
\* reaches throwErrors
LogWriteDone ==
    /\ pc = "serving"
    /\ \E w \in BagToSet(logWrites), err \in BOOLEAN :
        /\ logWrites' = logWrites (-) SetToBag({w})
        /\ IF err
           THEN /\ pc' = "dead"      \* throwErrors throws in the callback: uncaught
                /\ logFile' \in {logFile, CorruptFile}   \* untouched, or cut short
           ELSE /\ pc' = pc
                /\ logFile' = w
        /\ lastStep' = [op |-> "logWriteDone", err |-> err]
    /\ UNCHANGED <<events, furnaceState, mainPowerPin, heatCoolSelectorPin, pinWrites,
                   tempSchedule, scheduleFile, scheduleWrites, sensorReads, tempLog, clock>>

----------------------------------------------------------------------------
(* GPIO *)

\* variant: the callback of a write looks at no error
PinWriteDone_ErrorIgnored ==
    /\ pc = "serving"
    /\ \E w \in BagToSet(pinWrites), err \in BOOLEAN :
        /\ pinWrites' = pinWrites (-) SetToBag({w})
        /\ pc' = pc
        /\ IF err
           THEN UNCHANGED <<mainPowerPin, heatCoolSelectorPin>>
           ELSE /\ mainPowerPin' = (IF w.pin = "mainPower" THEN w.value ELSE mainPowerPin)
                /\ heatCoolSelectorPin' =
                       (IF w.pin = "selector" THEN w.value ELSE heatCoolSelectorPin)
        /\ lastStep' = [op |-> "pinWriteDone", err |-> err]
    /\ UNCHANGED <<events, furnaceState, tempSchedule, scheduleFile, scheduleWrites, sensorReads>>
    /\ UNCHANGED logVars

\* a Gpio.write completes: the level is set, or the error reaches throwErrors
PinWriteDone ==
    /\ pc = "serving"
    /\ \E w \in BagToSet(pinWrites), err \in BOOLEAN :
        /\ pinWrites' = pinWrites (-) SetToBag({w})
        /\ IF err
           THEN /\ pc' = "dead"      \* throwErrors throws in the callback: uncaught
                /\ UNCHANGED <<mainPowerPin, heatCoolSelectorPin>>
           ELSE /\ pc' = pc
                /\ mainPowerPin' = (IF w.pin = "mainPower" THEN w.value ELSE mainPowerPin)
                /\ heatCoolSelectorPin' =
                       (IF w.pin = "selector" THEN w.value ELSE heatCoolSelectorPin)
        /\ lastStep' = [op |-> "pinWriteDone", err |-> err]
    /\ UNCHANGED <<events, furnaceState, tempSchedule, scheduleFile, scheduleWrites, sensorReads>>
    /\ UNCHANGED logVars

----------------------------------------------------------------------------
(* The HTTP handlers *)

\* req.body.action of POST /state
NoAction == [defined |-> FALSE, name |-> ""]
ActionNamed(name) == [defined |-> TRUE, name |-> name]

\* names for which furnaceActions[name] is not undefined: its own keys and
\* those every object inherits from Object.prototype
ObjectPrototypeKeys == {"constructor", "toString"}
HasFurnaceAction(name) == name \in furnaceActions \cup ObjectPrototypeKeys

RequestedActions ==
    {NoAction} \cup { ActionNamed(n) : n \in furnaceActions \cup {"warm", "constructor"} }

PostState ==
    /\ pc = "serving"
    /\ events < MaxEvents
    /\ events' = events + 1
    /\ \E action \in RequestedActions :
        IF (~action.defined) \/ ~HasFurnaceAction(action.name)
        THEN /\ lastStep' = [op |-> "postState", action |-> action, response |-> "invalid action"]
             /\ UNCHANGED <<furnaceState, pinWrites>>
        ELSE /\ performFurnaceAction(action.name)
             /\ lastStep' = [op |-> "postState", action |-> action, response |-> "furnaceState"]
    /\ UNCHANGED <<pc, mainPowerPin, heatCoolSelectorPin, tempSchedule, scheduleFile,
                   scheduleWrites, sensorReads>>
    /\ UNCHANGED logVars

\* index of the entry at which ObjToSortedTempTimeArray throws (0 when it does not)
ThrowIndex(obj) ==
    IF \A i \in 1..Len(obj) : TempTime(obj[i].timeStr, obj[i].tempArray).ok THEN 0
    ELSE CHOOSE i \in 1..Len(obj) :
            /\ ~TempTime(obj[i].timeStr, obj[i].tempArray).ok
            /\ \A j \in 1..(i - 1) : TempTime(obj[j].timeStr, obj[j].tempArray).ok

\* an fs.writeFile of POST /schedule: its text, the array its callback will assign, and
\* whether the text has reached the file (the callback runs later, from the event loop)
ScheduleWrite(body, newTempTimeArray) ==
    [tempTimeObjString |-> JsonFile(body), newTempTimeArray |-> newTempTimeArray,
     written |-> FALSE]

PostSchedule ==
    /\ pc = "serving"
    /\ events < MaxEvents
    /\ events' = events + 1
    /\ \E body \in Objects :
        LET sorted == ObjToSortedTempTimeArray(body) IN
        IF ~sorted.ok
        THEN /\ lastStep' = [op |-> "postSchedule", accepted |-> FALSE, entries |-> Len(body),
                             threwAt |-> ThrowIndex(body), response |-> "error"]
             /\ UNCHANGED scheduleWrites
        ELSE /\ scheduleWrites' = scheduleWrites (+) SetToBag({ScheduleWrite(body, sorted.array)})
             /\ lastStep' = [op |-> "postSchedule", accepted |-> TRUE, entries |-> Len(body),
                             threwAt |-> 0, response |-> "none"]
    /\ UNCHANGED <<pc, furnaceState, mainPowerPin, heatCoolSelectorPin, pinWrites,
                   tempSchedule, scheduleFile, sensorReads>>
    /\ UNCHANGED logVars

\* the text of an fs.writeFile of POST /schedule reaches the file
ScheduleFileWritten ==
    /\ pc = "serving"
    /\ \E w \in BagToSet(scheduleWrites) :
        /\ ~w.written
        /\ scheduleFile' = w.tempTimeObjString
        /\ scheduleWrites' =
               (scheduleWrites (-) SetToBag({w})) (+) SetToBag({[w EXCEPT !.written = TRUE]})
    /\ lastStep' = [op |-> "scheduleFileWritten"]
    /\ UNCHANGED <<events, pc, furnaceState, mainPowerPin, heatCoolSelectorPin, pinWrites,
                   tempSchedule, sensorReads>>
    /\ UNCHANGED logVars

\* variant: the live schedule is replaced before the error is looked at
ScheduleWriteDone_AssignFirst ==
    /\ pc = "serving"
    /\ \E w \in BagToSet(scheduleWrites), err \in BOOLEAN :
        /\ err = ~w.written
        /\ scheduleWrites' = scheduleWrites (-) SetToBag({w})
        /\ tempSchedule' = w.newTempTimeArray
        /\ IF err
           THEN /\ scheduleFile' \in {scheduleFile, CorruptFile}
                /\ lastStep' = [op |-> "scheduleWriteDone", err |-> TRUE, write |-> w,
                                response |-> "error"]
           ELSE /\ UNCHANGED scheduleFile
                /\ lastStep' = [op |-> "scheduleWriteDone", err |-> FALSE, write |-> w,
                                response |-> "success"]
    /\ UNCHANGED <<events, pc, furnaceState, mainPowerPin, heatCoolSelectorPin, pinWrites,
                   sensorReads>>
    /\ UNCHANGED logVars

\* the callback of fs.writeFile in POST /schedule runs: without an error once the text
\* has reached the file, with an error for a write that failed
ScheduleWriteDone ==
    /\ pc = "serving"
    /\ \E w \in BagToSet(scheduleWrites), err \in BOOLEAN :
        /\ err = ~w.written
        /\ scheduleWrites' = scheduleWrites (-) SetToBag({w})
        /\ IF err
           THEN /\ scheduleFile' \in {scheduleFile, CorruptFile}   \* untouched, or cut short
                /\ UNCHANGED tempSchedule
                /\ lastStep' = [op |-> "scheduleWriteDone", err |-> TRUE, write |-> w,
                                response |-> "error"]
           ELSE /\ UNCHANGED scheduleFile
                /\ tempSchedule' = w.newTempTimeArray
                /\ lastStep' = [op |-> "scheduleWriteDone", err |-> FALSE, write |-> w,
                                response |-> "success"]
    /\ UNCHANGED <<events, pc, furnaceState, mainPowerPin, heatCoolSelectorPin, pinWrites, sensorReads>>
    /\ UNCHANGED logVars

\* GET /kill
Kill ==
    /\ pc = "serving"
    /\ events < MaxEvents
    /\ events' = events + 1
    /\ pc' = "dead"
    /\ lastStep' = [op |-> "kill"]
    /\ UNCHANGED <<furnaceState, mainPowerPin, heatCoolSelectorPin, pinWrites,
                   tempSchedule, scheduleFile, scheduleWrites, sensorReads>>
    /\ UNCHANGED logVars

----------------------------------------------------------------------------

Next ==
    \/ MainOff
    \/ StartTempLogging
    \/ StartFurnaceUpdates
    \/ Listen
    \/ UpdateFurnaceTick
    \/ UpdateFurnaceCallback
    \/ PinWriteDone
    \/ PostState
    \/ PostSchedule
    \/ ScheduleFileWritten
    \/ ScheduleWriteDone
    \/ Kill

Spec == Init /\ [][Next]_vars

\* the logging cadence, from a start without a schedule
LogNext ==
    \/ MainOff
    \/ StartTempLogging
    \/ StartFurnaceUpdates
    \/ Listen
    \/ UpdateFurnaceTick
    \/ LogTemperatureTick
    \/ LogTemperatureCallback
    \/ LogWriteDone
    \/ PinWriteDone
    \/ Kill

LogSpec == LogInit /\ [][LogNext]_vars

----------------------------------------------------------------------------
(* Properties of the furnace *)

IsTick(step) ==
    \/ step.op = "updateFurnace"
    \/ (step.op = "startFurnaceUpdates" /\ ~step.threw)

\* the four ways a sensor read fails to give a temperature
IsSensorError(read) ==
    \/ read.err                                  \* I/O failure
    \/ ~read.data.crcYes                         \* CRC failure
    \/ ~read.data.hasT                           \* no reading
    \/ DigitsToNumber(read.data.digits) = 0      \* zero reading

HEAT == [fan |-> TRUE, heat |-> TRUE, cool |-> FALSE]
COOL == [fan |-> TRUE, heat |-> FALSE, cool |-> TRUE]
OFF == [fan |-> FALSE, heat |-> FALSE, cool |-> FALSE]

\* C1: in every reachable state heat and cool are not both true, and fan is true
\* exactly when heat or cool is.
C1_FurnaceStateConsistent ==
    /\ ~(furnaceState.heat /\ furnaceState.cool)
    /\ furnaceState.fan = (furnaceState.heat \/ furnaceState.cool)

\* C1 witness: COOL recorded by a second request, after the startup OFF and a first action
C1_Witness ==
    /\ lastStep.op = "postState"
    /\ lastStep.response = "furnaceState"
    /\ events = 2
    /\ furnaceState = COOL

\* C2: the callback of a furnace update that got a numeric reading performs HEAT if the
\* reading is below minTemp, COOL if it is above maxTemp and OFF otherwise, the two
\* bounds included.
C2_DecisionByThresholds ==
    (lastStep.op = "updateFurnaceCallback" /\ ~IsSensorError(lastStep.read)) =>
        LET milli == DigitsToNumber(lastStep.read.data.digits)
            expected == IF milli < lastStep.minTemp * 1000 THEN "heat"
                        ELSE IF milli > lastStep.maxTemp * 1000 THEN "cool"
                        ELSE "off"
        IN /\ lastStep.minTemp < lastStep.maxTemp
           /\ lastStep.performed = expected
           /\ furnaceState = (CASE expected = "heat" -> HEAT
                                [] expected = "cool" -> COOL
                                [] expected = "off" -> OFF)

\* C2 witness: a reading equal to minTemp turned the furnace off
C2_Witness ==
    /\ lastStep.op = "updateFurnaceCallback"
    /\ ~IsSensorError(lastStep.read)
    /\ DigitsToNumber(lastStep.read.data.digits) = lastStep.minTemp * 1000
    /\ lastStep.performed = "off"
    /\ furnaceState = OFF

\* C3: a furnace update whose sensor read fails (I/O, CRC, no reading, zero reading)
\* leaves the recorded furnace state, both pins and the outstanding pin writes as they were.
C3_SensorErrorLeavesFurnace ==
    [][(lastStep'.op = "updateFurnaceCallback" /\ IsSensorError(lastStep'.read)) =>
           /\ lastStep'.performed = "none"
           /\ UNCHANGED <<furnaceState, mainPowerPin, heatCoolSelectorPin, pinWrites>>]_vars

\* C3 witness: a zero reading arrived while the furnace was heating, and it still is
C3_Witness ==
    /\ lastStep.op = "updateFurnaceCallback"
    /\ lastStep.read = [err |-> FALSE, data |-> SensorData(TRUE, TRUE, <<"0">>)]
    /\ furnaceState = HEAT

\* C4: a furnace update that finds the live schedule empty performs no furnace action,
\* writes no pin, issues no sensor read whose callback could decide later, and leaves
\* the recorded furnace state as it was.
C4_EmptyScheduleNoDecision ==
    [][(IsTick(lastStep') /\ tempSchedule' = <<>>) =>
           /\ lastStep'.tick.skipped
           /\ UNCHANGED <<furnaceState, mainPowerPin, heatCoolSelectorPin, pinWrites,
                          sensorReads>>]_vars

\* C4 witness: a tick skipped with the furnace heating
C4_Witness ==
    /\ lastStep.op = "updateFurnace"
    /\ lastStep.tick.skipped
    /\ tempSchedule = <<>>
    /\ furnaceState = HEAT
    /\ ~\E r \in BagToSet(sensorReads) : r.kind = "furnace"

\* the entry in effect at a time of day: the last one strictly before it, else the last one
IsStrictlyBefore(tempTime, currentTime) ==
    \/ tempTime.hour < currentTime.hour
    \/ (tempTime.hour = currentTime.hour /\ tempTime.minutes < currentTime.minute)

EntryInEffect(schedule, currentTime) ==
    LET before == { i \in 1..Len(schedule) : IsStrictlyBefore(schedule[i], currentTime) } IN
    IF before = {} THEN schedule[Len(schedule)]
    ELSE schedule[CHOOSE i \in before : \A j \in before : j <= i]

\* C5: a furnace update on a non-empty schedule issues its sensor read with the last
\* entry strictly before the current (hour, minute), or with the last entry of the
\* schedule when none is; an entry at exactly the current time is not the one chosen.
C5_RangeInEffect ==
    [][(IsTick(lastStep') /\ tempSchedule' # <<>>) =>
           sensorReads' = sensorReads (+)
               SetToBag({FurnaceRead(EntryInEffect(tempSchedule', lastStep'.tick.currentTime))})]_vars

\* C5 witness: at 8:30 with entries at 8:30 and 10:00 the update took the 10:00 entry
C5_Witness ==
    /\ IsTick(lastStep)
    /\ lastStep.tick.currentTime = [hour |-> 8, minute |-> 30]
    /\ Len(tempSchedule) = 2
    /\ tempSchedule[1].hour = 8 /\ tempSchedule[1].minutes = 30
    /\ tempSchedule[2].hour = 10
    /\ sensorReads = SetToBag({LogRead, FurnaceRead(tempSchedule[2])})

----------------------------------------------------------------------------
(* Properties of the schedule *)

\* C6: the live schedule is sorted ascending by (hour, minute), compared as numbers.
C6_ScheduleSorted ==
    \A i, j \in 1..Len(tempSchedule) :
        i < j => \/ tempSchedule[i].hour < tempSchedule[j].hour
                 \/ /\ tempSchedule[i].hour = tempSchedule[j].hour
                    /\ tempSchedule[i].minutes <= tempSchedule[j].minutes

\* C6 witness: {"10:00": .., "8:30": ..} was accepted and stored with 8:30 first
C6_Witness ==
    /\ lastStep.op = "scheduleWriteDone"
    /\ ~lastStep.err
    /\ Len(lastStep.write.tempTimeObjString.obj) = 2
    /\ lastStep.write.tempTimeObjString.obj[1].timeStr = Key1000
    /\ lastStep.write.tempTimeObjString.obj[2].timeStr = Key830
    /\ Len(tempSchedule) = 2
    /\ tempSchedule[1].hour = 8
    /\ tempSchedule[2].hour = 10

\* C7: the live schedule never holds two entries with the same (hour, minute), a
\* submission with two keys for one time of day being refused.
C7_NoDuplicateTimes ==
    \A i, j \in 1..Len(tempSchedule) :
        (tempSchedule[i].hour = tempSchedule[j].hour
            /\ tempSchedule[i].minutes = tempSchedule[j].minutes) => i = j

\* the texts of the hours 0..23 (one or two digits) and of the minutes 00..59
HourStrs ==
    { <<DigitChars[h + 1]>> : h \in 0..9 }
        \cup { <<DigitChars[(h \div 10) + 1], DigitChars[(h % 10) + 1]>> : h \in 0..23 }

MinuteStrs == { <<DigitChars[(m \div 10) + 1], DigitChars[(m % 10) + 1]>> : m \in 0..59 }

\* a key of the form H:MM or HH:MM with the hour in 0..23 and the minute in 0..59
IsWellFormedTimeStr(timeStr) ==
    \E k \in 1..Len(timeStr) :
        /\ timeStr[k] = ":"
        /\ SubSeq(timeStr, 1, k - 1) \in HourStrs
        /\ SubSeq(timeStr, k + 1, Len(timeStr)) \in MinuteStrs

IsMalformedEntry(entry) ==
    \/ ~IsWellFormedTimeStr(entry.timeStr)
    \/ ~entry.tempArray.isArray
    \/ Len(entry.tempArray.items) # 2
    \/ \E k \in 1..Len(entry.tempArray.items) : entry.tempArray.items[k].type # "number"
    \/ entry.tempArray.items[1].n >= entry.tempArray.items[2].n

HasMalformedEntry(obj) == \E i \in 1..Len(obj) : IsMalformedEntry(obj[i])

\* no file write was started for an object with a malformed entry
StartedWritesWellFormed ==
    \A w \in BagToSet(scheduleWrites) : ~HasMalformedEntry(w.tempTimeObjString.obj)

\* C8: POST /schedule starts a file write only for an object without any malformed
\* entry, wherever the entry sits; the handler itself never touches the live schedule or
\* the schedule file, and a refused submission starts no file write.
C8_MalformedSubmissionChangesNothing ==
    [][lastStep'.op = "postSchedule" =>
           /\ UNCHANGED <<tempSchedule, scheduleFile>>
           /\ StartedWritesWellFormed'
           /\ (~lastStep'.accepted) => UNCHANGED scheduleWrites
           /\ lastStep'.accepted =>
                  BagCardinality(scheduleWrites') = BagCardinality(scheduleWrites) + 1]_vars

\* C8 witness: a submission refused at its second entry, after a well-formed first one,
\* with a schedule live
C8_Witness ==
    /\ lastStep.op = "postSchedule"
    /\ ~lastStep.accepted
    /\ lastStep.entries = 2
    /\ lastStep.threwAt = 2
    /\ tempSchedule # <<>>
    /\ scheduleWrites = EmptyBag

\* C9: every entry of the live schedule has its hour in 0..23, its minute in 0..59 and
\* minTemp < maxTemp.
C9_EntriesValid ==
    \A i \in 1..Len(tempSchedule) :
        /\ tempSchedule[i].hour \in 0..23
        /\ tempSchedule[i].minutes \in 0..59
        /\ tempSchedule[i].minTemp < tempSchedule[i].maxTemp

\* C9 witness: a two-entry schedule live straight after the startup load
C9_Witness ==
    /\ lastStep.op = "startFurnaceUpdates"
    /\ Len(tempSchedule) = 2

\* C10: "success" is sent by no handler but the callback of a file write that completed
\* without error, after its text reached the file and in the step that makes the
\* submission's sorted array the live schedule; a failed write sends no "success" and
\* leaves the live schedule unchanged, which no other step of a serving process changes
\* either.
C10_SuccessOnlyAfterWrite ==
    [][/\ (lastStep'.op = "postState" \/ lastStep'.op = "postSchedule") =>
              lastStep'.response # "success"
       /\ (lastStep'.op = "scheduleWriteDone" /\ lastStep'.response = "success") =>
              /\ ~lastStep'.err
              /\ lastStep'.write \in BagToSet(scheduleWrites)
              /\ tempSchedule' = lastStep'.write.newTempTimeArray
              /\ tempSchedule' =
                     ObjToSortedTempTimeArray(lastStep'.write.tempTimeObjString.obj).array
              /\ lastStep'.write.written
       /\ (lastStep'.op = "scheduleFileWritten") =>
              (tempSchedule' = tempSchedule /\ scheduleFile'.json)
       /\ (lastStep'.op = "scheduleWriteDone" /\ lastStep'.err) =>
              (tempSchedule' = tempSchedule /\ lastStep'.response # "success")
       /\ (pc = "serving" /\ tempSchedule' # tempSchedule) =>
              (lastStep'.op = "scheduleWriteDone" /\ ~lastStep'.err)]_vars

\* C10 witness: "success" sent for a two-entry submission
C10_Witness ==
    /\ lastStep.op = "scheduleWriteDone"
    /\ lastStep.response = "success"
    /\ Len(tempSchedule) = 2
    /\ scheduleWrites = EmptyBag

----------------------------------------------------------------------------
(* Properties of the temperature log *)

Key830h == <<"8", "3", "0">>
Key832h == <<"8", "3", "2">>
Key999h == <<"9", "9", "9">>

\* C11: a logging tick that completes at time now leaves in the log no key numerically
\* below now - maxAge, keeps every earlier entry whose key is not below it (with its
\* value, unless it is the key of now), and holds the entry appended at now.
C11_LogTrimmedByAge ==
    [][lastStep'.op = "logTemperatureCallback" =>
           /\ \A time \in DOMAIN tempLog' :
                  DigitsToNumber(time) >= clock' - maxTempLogAgeMs
           /\ \A time \in DOMAIN tempLog :
                  DigitsToNumber(time) >= clock' - maxTempLogAgeMs =>
                      /\ time \in DOMAIN tempLog'
                      /\ DigitsToNumber(time) # clock' => tempLog'[time] = tempLog[time]
           /\ \E time \in DOMAIN tempLog' : DigitsToNumber(time) = clock']_vars

\* C11 witness: the tick at 999 = 832 + maxAge - 1 kept the entry of 832 and removed the
\* entry of 830 = 999 - maxAge - 1, which the tick at 832 had kept and written to the file
C11_Witness ==
    /\ lastStep.op = "logTemperatureCallback"
    /\ clock = 999
    /\ DOMAIN tempLog = {Key832h, Key999h}
    /\ logFile.json
    /\ DOMAIN logFile.obj = {Key830h, Key832h}

----------------------------------------------------------------------------
(* Properties of the start and of the GPIO writes *)

C13_PowerBeforeSelector ==
    [][/\ \A v \in {0, 1} :
              (/\ pinWrites = PinWrite("mainPower", 0) (+) PinWrite("selector", v)
               /\ lastStep'.op = "pinWriteDone"
               /\ ~lastStep'.err) =>
                  /\ pinWrites' = PinWrite("selector", v)
                  /\ mainPowerPin' = 0
       /\ (lastStep'.op # "pinWriteDone" /\ pinWrites' # pinWrites /\ furnaceState' = OFF) =>
              pinWrites' = pinWrites (+) PinWrite("mainPower", 1)]_vars

\* C14: a pin write that reports a failure ends the process, leaving the pins and the
\* recorded state as they were, and an ended process takes no step: no tick, no furnace
\* action, no pin write, no request.
C14_PinFailureFatal ==
    [][/\ (lastStep'.op = "pinWriteDone" /\ lastStep'.err) =>
              /\ pc' = "dead"
              /\ UNCHANGED <<furnaceState, mainPowerPin, heatCoolSelectorPin>>
       /\ pc # "dead"]_vars

\* C14 witness: the process ended by a failed pin write, with a pin write and a sensor
\* read of a furnace update outstanding and requests still to come
C14_Witness ==
    /\ lastStep.op = "pinWriteDone"
    /\ lastStep.err
    /\ pc = "dead"
    /\ pinWrites # EmptyBag
    /\ \E r \in BagToSet(sensorReads) : r.kind = "furnace"
    /\ events < MaxEvents

----------------------------------------------------------------------------
(* Properties of the two cadences *)

\* C15: a furnace-update tick that issues a sensor read starts only when no sensor read
\* of an earlier furnace-update tick is outstanding, and a logging tick starts only when
\* no sensor read and no file write of an earlier logging tick is outstanding.
C15_NoSelfOverlap ==
    [][/\ (lastStep'.op = "updateFurnace" /\ ~lastStep'.tick.skipped) =>
              ~\E r \in BagToSet(sensorReads) : r.kind = "furnace"
       /\ lastStep'.op = "logTemperature" =>
              (~\E r \in BagToSet(sensorReads) : r.kind = "log") /\ logWrites = EmptyBag]_vars

----------------------------------------------------------------------------
(* Properties of POST /state *)

\* C16: POST /state without an action, or with an action other than "heat", "cool" and
\* "off", answers {error: "invalid action"} and leaves the recorded state, the pins and
\* the outstanding pin writes as they were; with one of the three it records the state
\* of the action, issues its pin writes and answers with the furnace state.
C16_PostStateValidated ==
    [][lastStep'.op = "postState" =>
           IF (~lastStep'.action.defined) \/ lastStep'.action.name \notin {"heat", "cool", "off"}
           THEN /\ lastStep'.response = "invalid action"
                /\ UNCHANGED <<furnaceState, mainPowerPin, heatCoolSelectorPin, pinWrites>>
           ELSE /\ lastStep'.response = "furnaceState"
                /\ furnaceState' = (CASE lastStep'.action.name = "heat" -> HEAT
                                      [] lastStep'.action.name = "cool" -> COOL
                                      [] lastStep'.action.name = "off" -> OFF)
                /\ pinWrites' # pinWrites
                /\ UNCHANGED <<mainPowerPin, heatCoolSelectorPin>>]_vars

----------------------------------------------------------------------------
(* Properties of the start with missing or corrupt files *)

\* C17: with the log file missing or not JSON, startTempLogging leaves the log empty,
\* issues the sensor read of the first logging tick and goes on to startFurnaceUpdates;
\* with the schedule file missing or not JSON, startFurnaceUpdates leaves the live
\* schedule empty, runs the first furnace update and goes on to listen; neither ends
\* the process.
C17_MissingOrCorruptFilesLoadEmpty ==
    [][/\ (lastStep'.op = "startTempLogging" /\ ((~logFile.exists) \/ ~logFile.json)) =>
              /\ tempLog' = <<>>
              /\ sensorReads' = sensorReads (+) SetToBag({[kind |-> "log"]})
              /\ pc' = "startFurnaceUpdates"
       /\ (lastStep'.op = "startFurnaceUpdates"
               /\ ((~scheduleFile.exists) \/ ~scheduleFile.json)) =>
              /\ ~lastStep'.threw
              /\ tempSchedule' = <<>>
              /\ lastStep'.tick.skipped
              /\ pc' = "listen"
       /\ (pc = "startTempLogging" /\ ((~logFile.exists) \/ ~logFile.json)) => pc' # "dead"
       /\ (pc = "startFurnaceUpdates" /\ ((~scheduleFile.exists) \/ ~scheduleFile.json)) =>
              pc' # "dead"]_vars

\* C17 witness: started to the point of listening with both files present and not JSON
C17_Witness ==
    /\ lastStep.op = "startFurnaceUpdates"
    /\ pc = "listen"
    /\ logFile = CorruptFile
    /\ scheduleFile = CorruptFile
    /\ tempLog = <<>>
    /\ tempSchedule = <<>>
    /\ sensorReads = SetToBag({[kind |-> "log"]})

----------------------------------------------------------------------------
(* Properties of the persisted schedule *)

\* C18: whenever the process is up and no schedule file write is in flight, loading the
\* schedule file gives the live schedule.
C18_LiveScheduleIsFileReload ==
    ((pc = "listen" \/ pc = "serving") /\ scheduleWrites = EmptyBag) =>
        LET loaded == ObjToSortedTempTimeArray(readJsonFileIfExists(scheduleFile)) IN
        loaded.ok /\ loaded.array = tempSchedule

----------------------------------------------------------------------------
(* Properties of the pins and of the furnace update under concurrency *)

\* C19: whenever the process is serving and no pin write is in flight, the pins match
\* the recorded state: HEAT with main power enabled (0) and the selector at heat (1),
\* COOL with main power enabled and the selector at cool (0), OFF with main power
\* disabled (1).
C19_PinsMatchState ==
    (pc = "serving" /\ pinWrites = EmptyBag) =>
        /\ furnaceState = HEAT => (mainPowerPin = 0 /\ heatCoolSelectorPin = 1)
        /\ furnaceState = COOL => (mainPowerPin = 0 /\ heatCoolSelectorPin = 0)
        /\ furnaceState = OFF => mainPowerPin = 1

\* C20: the action the callback of a furnace update performs is the decision for its
\* reading against the range of an entry of the schedule that is live when the callback
\* runs (the entry in effect at that moment is one of them).
C20_TickAtomicWithSchedule ==
    (lastStep.op = "updateFurnaceCallback" /\ lastStep.performed # "none") =>
        \E i \in 1..Len(tempSchedule) :
            LET milli == DigitsToNumber(lastStep.read.data.digits) IN
            lastStep.performed = (IF milli < tempSchedule[i].minTemp * 1000 THEN "heat"
                                  ELSE IF milli > tempSchedule[i].maxTemp * 1000 THEN "cool"
                                  ELSE "off")

====
